---- MODULE Spec2Model ----
(***************************************************************************)
(* A model of the offline code assistant's project analyzer                *)
(* (src/src/project_analyzer.py) and of the callers in src/src/main.py     *)
(* that reach it.                                                          *)
(*                                                                         *)
(* A Python str is modelled as a sequence of one-character strings, so     *)
(* that lower(), splitext(), substring search, fnmatch and the regular     *)
(* expressions are computed character by character.  The file system is a  *)
(* tree of directories and regular files below the root "/", which is      *)
(* also the process's working directory.                                   *)
(***************************************************************************)
EXTENDS Integers, Sequences, FiniteSets, TLC

VARIABLES
    fs,            \* the file system: path components -> node
    ignored_dirs,  \* ProjectAnalyzer.ignored_dirs (config): glob patterns
    file_cache,    \* ProjectAnalyzer.file_cache: path string -> text
    ret,           \* the last call of an analyzer operation and its outcome
    firstRead,     \* history: path string -> text its first read_file returned
    okRead,        \* history: path string -> text of its first read that
                   \* came from the file or the cache
    content,       \* the text an extractor is applied to on its own
    peer_cache,    \* file_cache of a second ProjectAnalyzer instance
    pc,            \* run_interactive_loop: where the loop stands
    user_input,    \* run_interactive_loop: the input being handled
    save_history,  \* run_interactive_loop: the save_history flag
    conversation_history, \* run_interactive_loop: the list of (role, text)
    conversation_file,    \* run_interactive_loop: the local, bound or not
    history_files, \* the history folder: file path -> what was written
    event,         \* the last thing the terminal or the LLM did and what
                   \* the loop printed on it
    turns,         \* the number of terminal events so far
    parent_dir     \* run_interactive_loop's parent_dir argument

loopVars == <<pc, user_input, save_history, conversation_history, conversation_file,
              history_files, event, turns, parent_dir>>

vars == <<fs, ignored_dirs, file_cache, ret, firstRead, okRead, content, peer_cache,
          loopVars>>

\* the local conversation_file before any assignment to it
NoFile == [bound |-> FALSE]
\* parent_dir is None without --parent-context
NoParent == [given |-> FALSE]
NoEvent == [kind |-> "none"]

\* the interactive loop has not been entered
LoopOff ==
    /\ pc = "off"
    /\ user_input = <<>>
    /\ save_history = FALSE
    /\ conversation_history = <<>>
    /\ conversation_file = NoFile
    /\ history_files = <<>>
    /\ event = NoEvent
    /\ turns = 0
    /\ parent_dir = NoParent

----------------------------------------------------------------------------
(* Bounds of the model *)

\* entries (files and directories) in the tree of the analyzer specification
MaxEntries == 2
\* entries in the tree of the directory-walk specification
MaxWalkEntries == 3
\* nesting depth of an entry below the root
MaxDepth == 3
\* distinct path strings read_file is called with
MaxReadPaths == 2
\* lexemes of a text an extractor is applied to on its own
MaxLexemes == 4
\* paths the second analyzer instance caches
MaxPeerPaths == 1
\* the largest line_number get_file_context is called with
MaxLineNumber == 3
\* terminal events (inputs, Ctrl+C, end of input) of a run of the loop
MaxTurns == 3

----------------------------------------------------------------------------
(* Text *)

Empty == <<>>

UpperCase == <<"A","B","C","D","E","F","G","H","I","J","K","L","M",
               "N","O","P","Q","R","S","T","U","V","W","X","Y","Z">>
LowerCase == <<"a","b","c","d","e","f","g","h","i","j","k","l","m",
               "n","o","p","q","r","s","t","u","v","w","x","y","z">>

\* str.lower() on one character
LowerOf == [c \in {UpperCase[i] : i \in 1..26} |->
               LowerCase[CHOOSE i \in 1..26 : UpperCase[i] = c]]

LowerChar(c) == IF c \in DOMAIN LowerOf THEN LowerOf[c] ELSE c

\* str.lower()
lower(s) == [i \in 1..Len(s) |-> LowerChar(s[i])]

\* Python's `sub in s`
Contains(s, sub) ==
    \E i \in 0..(Len(s) - Len(sub)) : SubSeq(s, i + 1, i + Len(sub)) = sub

\* str.rfind(c) for a one-character c, as a 1-based position (0: not found)
rfind(s, c) ==
    IF \E i \in 1..Len(s) : s[i] = c
    THEN CHOOSE i \in 1..Len(s) : s[i] = c /\ \A j \in (i + 1)..Len(s) : s[j] # c
    ELSE 0

\* str.lstrip('.')
RECURSIVE lstripDots(_)
lstripDots(s) ==
    IF s # Empty /\ Head(s) = "." THEN lstripDots(Tail(s)) ELSE s

\* sep.join(parts)
RECURSIVE JoinWith(_, _)
JoinWith(sep, parts) ==
    IF parts = <<>> THEN Empty
    ELSE IF Len(parts) = 1 THEN parts[1]
    ELSE parts[1] \o sep \o JoinWith(sep, Tail(parts))

\* s.split(c) for a one-character c
RECURSIVE SplitOn(_, _)
SplitOn(s, c) ==
    IF \E i \in 1..Len(s) : s[i] = c
    THEN LET i == CHOOSE k \in 1..Len(s) : s[k] = c /\ \A j \in 1..(k - 1) : s[j] # c
         IN  <<SubSeq(s, 1, i - 1)>> \o SplitOn(SubSeq(s, i + 1, Len(s)), c)
    ELSE <<s>>

Range(q) == {q[i] : i \in 1..Len(q)}

RECURSIVE Flatten(_)
Flatten(qs) == IF qs = <<>> THEN <<>> ELSE Head(qs) \o Flatten(Tail(qs))

RECURSIVE SumOver(_, _)
SumOver(f, S) ==
    IF S = {} THEN 0
    ELSE LET x == CHOOSE y \in S : TRUE IN f[x] + SumOver(f, S \ {x})

\* dict[k] = v
Put(d, k, v) == [x \in DOMAIN d \cup {k} |-> IF x = k THEN v ELSE d[x]]

\* dict.get(k, default)
Get(d, k, default) == IF k \in DOMAIN d THEN d[k] ELSE default

----------------------------------------------------------------------------
(* Paths: os.path on POSIX *)

Slash == <<"/">>
Dot == <<".">>

\* os.path.splitext: <<root, ext>>; leading dots of the last component are
\* not an extension separator
splitext(p) ==
    LET sepIndex == rfind(p, "/")
        dotIndex == rfind(p, ".")
    IN  IF dotIndex > sepIndex
           /\ \E k \in (sepIndex + 1)..(dotIndex - 1) : p[k] # "."
        THEN <<SubSeq(p, 1, dotIndex - 1), SubSeq(p, dotIndex, Len(p))>>
        ELSE <<p, Empty>>

\* os.path.join(a, b)
join(a, b) ==
    IF b # Empty /\ Head(b) = "/" THEN b
    ELSE IF a = Empty \/ a[Len(a)] = "/" THEN a \o b
    ELSE a \o Slash \o b

\* os.path.isabs
isabs(p) == p # Empty /\ Head(p) = "/"

\* The components a path string names below the root: empty and "."
\* components name nothing, and a relative path starts at the working
\* directory, which is the root.
Resolve(p) == SelectSeq(SplitOn(p, "/"), LAMBDA c : c # Empty /\ c # Dot)

\* os.path.abspath
abspath(p) == Slash \o JoinWith(Slash, Resolve(p))

\* os.path.relpath(root, start) for a root at or below start
relpath(rootComps, startComps) ==
    IF rootComps = startComps THEN Dot
    ELSE JoinWith(Slash, SubSeq(rootComps, Len(startComps) + 1, Len(rootComps)))

----------------------------------------------------------------------------
(* fnmatch.fnmatch(name, pat) on POSIX (case-sensitive): '*' matches any   *)
(* run of characters, '?' any one character, anything else itself.  The    *)
(* patterns of the model hold no bracket expressions.                      *)

RECURSIVE GlobFrom(_, _, _, _)
GlobFrom(name, pat, i, j) ==
    IF j > Len(pat) THEN i > Len(name)
    ELSE IF pat[j] = "*"
         THEN GlobFrom(name, pat, i, j + 1)
              \/ (i <= Len(name) /\ GlobFrom(name, pat, i + 1, j))
    ELSE IF pat[j] = "?"
         THEN i <= Len(name) /\ GlobFrom(name, pat, i + 1, j + 1)
    ELSE i <= Len(name) /\ name[i] = pat[j] /\ GlobFrom(name, pat, i + 1, j + 1)

fnmatch(name, pat) == GlobFrom(name, pat, 1, 1)

----------------------------------------------------------------------------
(* The names, texts and patterns the model draws from *)

NDotGit == <<".","g","i","t">>
NApp    == <<"a","p","p">>
NLibD   == <<"l","i","b",".","d">>
NMainPY == <<"M","a","i","n",".","P","Y">>
NConfig == <<"c","o","n","f","i","g">>
NAJs    == <<"a",".","j","s">>
NXC     == <<"x",".","c">>
NYCpp   == <<"y",".","c","p","p">>
NIdxH   == <<"i","n","d","e","x",".","h">>
NUXyz   == <<"u",".","x","y","z">>

DirNames == {NDotGit, NApp, NLibD}
FileNames == {NMainPY, NConfig, NAJs, NXC, NYCpp, NIdxH, NUXyz}
\* the file names of the trees of the directory-walk specification
WalkFileNames == {NMainPY, NConfig, NAJs}
\* the names of the trees of the analyzer specification
CacheDirNames == {NApp}
CacheFileNames == {NAJs}
Names == DirNames \cup FileNames

\* os.scandir lists a directory in an order the file system chooses
ScanOrders ==
    { <<NDotGit, NApp, NLibD, NMainPY, NConfig, NAJs, NXC, NYCpp, NIdxH, NUXyz>>,
      <<NUXyz, NIdxH, NYCpp, NXC, NAJs, NConfig, NMainPY, NLibD, NApp, NDotGit>> }

PGit  == <<".","g","i","t">>
PLqbS == <<"l","?","b","*">>
IgnorePatterns == {PGit, PLqbS}

TEmpty == Empty
TTwo   == <<"a","\n","b">>
Texts == {TEmpty, TTwo}

----------------------------------------------------------------------------
(* The file system *)

DirNode == [kind |-> "dir"]
FileNode(text, readable) == [kind |-> "file", content |-> text, readable |-> readable]

Exists(tree, c) == c = <<>> \/ c \in DOMAIN tree
IsDir(tree, c) == c = <<>> \/ (c \in DOMAIN tree /\ tree[c].kind = "dir")
IsFile(tree, c) == c \in DOMAIN tree /\ tree[c].kind = "file"

\* os.path.exists
exists(tree, p) == Exists(tree, Resolve(p))

\* open(p, 'r') succeeds
CanOpen(tree, p) == IsFile(tree, Resolve(p)) /\ tree[Resolve(p)].readable

IsPrefix(a, b) == Len(a) <= Len(b) /\ SubSeq(b, 1, Len(a)) = a

----------------------------------------------------------------------------
(* ProjectAnalyzer: the directory walk *)

\* _is_ignored_dir
_is_ignored_dir(dir_name, patterns) ==
    \E pattern \in patterns : fnmatch(dir_name, pattern)

\* a walk that prunes nothing
PruneNothing(dirs, patterns) == dirs

\* dirs[:] = [d for d in dirs if not self._is_ignored_dir(d)]
PruneDirs(dirs, patterns) ==
    SelectSeq(dirs, LAMBDA d : ~_is_ignored_dir(d, patterns))

\* os.walk(top), top-down, with the in-place edit of dirs the loop body of
\* analyze_project makes before the walk descends: the sequence of
\* (root, dirs, files) triples.  A top that cannot be listed yields nothing
\* (os.walk swallows the scandir error).
RECURSIVE os_walk(_, _, _, _)
os_walk(tree, top, order, patterns) ==
    IF ~IsDir(tree, top) THEN <<>>
    ELSE LET dirs  == SelectSeq(order, LAMBDA n : Append(top, n) \in DOMAIN tree
                                                  /\ IsDir(tree, Append(top, n)))
             files == SelectSeq(order, LAMBDA n : IsFile(tree, Append(top, n)))
             kept  == PruneDirs(dirs, patterns)
         IN  <<[root |-> top, dirs |-> kept, files |-> files]>>
             \o Flatten([i \in 1..Len(kept) |->
                            os_walk(tree, Append(top, kept[i]), order, patterns)])

\* a file path that is always joined to rel_root
FilePathJoined(rel_root, file) == join(rel_root, file)

\* file_path of one file of the walk
FilePath(rel_root, file) ==
    IF rel_root = Dot THEN file ELSE join(rel_root, file)

\* an extension that keeps its case
FileExtAsWritten(file) == splitext(file)[2]

\* ext of one file of the walk
FileExt(file) == lower(splitext(file)[2])

\* the file-type counters after one file
TrackFileType(file_types, ext) ==
    IF ext # Empty THEN Put(file_types, ext, Get(file_types, ext, 0) + 1)
    ELSE file_types

\* one iteration of `for file in files`
ForFile(info, rel_root, file) ==
    [info EXCEPT !.files = Append(@, FilePath(rel_root, file)),
                 !.file_count = @ + 1,
                 !.file_types = TrackFileType(@, FileExt(file))]

RECURSIVE ForFiles(_, _, _)
ForFiles(info, rel_root, files) ==
    IF files = <<>> THEN info
    ELSE ForFiles(ForFile(info, rel_root, Head(files)), rel_root, Tail(files))

\* one iteration of `for root, dirs, files in os.walk(project_path)`
ForVisit(info, visit, startComps) ==
    LET rel_root == relpath(visit.root, startComps)
        withDir  == IF rel_root # Dot
                    THEN [info EXCEPT !.directories = Append(@, rel_root),
                                      !.directory_count = @ + 1]
                    ELSE info
    IN  ForFiles(withDir, rel_root, visit.files)

RECURSIVE ForVisits(_, _, _)
ForVisits(info, visits, startComps) ==
    IF visits = <<>> THEN info
    ELSE ForVisits(ForVisit(info, Head(visits), startComps), Tail(visits), startComps)

\* analyze_project on an existing project_path
analyze_project(tree, project_path, order, patterns) ==
    ForVisits([path |-> project_path, files |-> <<>>, file_count |-> 0,
               directories |-> <<>>, directory_count |-> 0,
               file_types |-> <<>>],
              os_walk(tree, Resolve(project_path), order, patterns),
              Resolve(project_path))

ImportantPatterns ==
    { <<"m","a","i","n">>, <<"i","n","d","e","x">>, <<"a","p","p">>,
      <<"c","o","n","f","i","g">> }

\* a test that does not lowercase the path
IsImportantAsWritten(file) ==
    \E pattern \in ImportantPatterns : Contains(file, pattern)

\* the test of `for file in project_info['files']`
IsImportant(file) ==
    \E pattern \in ImportantPatterns : Contains(lower(file), pattern)

RECURSIVE ImportantFiles(_)
ImportantFiles(files) ==
    IF files = <<>> THEN <<>>
    ELSE (IF IsImportant(Head(files)) THEN <<Head(files)>> ELSE <<>>)
         \o ImportantFiles(Tail(files))

\* get_project_summary from the project_info of its analyze_project call
get_project_summary(project_info) ==
    [path |-> project_info.path,
     file_count |-> project_info.file_count,
     directory_count |-> project_info.directory_count,
     file_types |-> project_info.file_types,
     important_files |-> ImportantFiles(project_info.files)]

----------------------------------------------------------------------------
(* Regular expressions (Python's re): character classes and helpers *)

Digits == {"0","1","2","3","4","5","6","7","8","9"}

\* \w
\* a character class: the characters of a set ([...]) or all others ([^...])
OneOf(chars) == [negated |-> FALSE, chars |-> chars]
NoneOf(chars) == [negated |-> TRUE, chars |-> chars]
InClass(c, class) == (c \in class.chars) # class.negated

\* \w
WordChars == Range(UpperCase) \cup Range(LowerCase) \cup Digits \cup {"_"}
WordChar == OneOf(WordChars)

\* \s
SpaceChars == {" ", "\t", "\n", "\r", "\f"}
SpaceChar == OneOf(SpaceChars)

\* \S
NonSpaceChar == NoneOf(SpaceChars)

\* the position after the longest run of characters of class P that starts
\* at position i (i itself when the run is empty)
RunEnd(s, i, class) ==
    CHOOSE j \in i..(Len(s) + 1) :
        /\ j = Len(s) + 1 \/ ~InClass(s[j], class)
        /\ \A k \in i..(j - 1) : InClass(s[k], class)

\* the literal lit stands at position i
LitAt(s, i, lit) ==
    i + Len(lit) - 1 <= Len(s) /\ SubSeq(s, i, i + Len(lit) - 1) = lit

NoMatch == [matched |-> FALSE]

----------------------------------------------------------------------------
(* _analyze_c_cpp *)

KwInclude == <<"#","i","n","c","l","u","d","e">>
KwStruct  == <<"s","t","r","u","c","t">>
KwClass   == <<"c","l","a","s","s">>
KwEnum    == <<"e","n","u","m">>
KwIf      == <<"i","f">>
KwFor     == <<"f","o","r">>
KwWhile   == <<"w","h","i","l","e">>
KwSwitch  == <<"s","w","i","t","c","h">>

ControlFlowKeywords == {KwIf, KwFor, KwWhile, KwSwitch}

NotIncludeClose == NoneOf({">", "\""})
NotCloseParen == NoneOf({")"})

\* include_pattern  #include\s+[<"]([^>"]+)[>"]  matched at position i
CIncludeAt(s, i) ==
    IF ~LitAt(s, i, KwInclude) THEN NoMatch
    ELSE LET a == i + Len(KwInclude)
             b == RunEnd(s, a, SpaceChar)
         IN  IF b > a /\ b <= Len(s) /\ s[b] \in {"<", "\""}
             THEN LET c == RunEnd(s, b + 1, NotIncludeClose)
                  IN  IF c > b + 1 /\ c <= Len(s)
                      THEN [matched |-> TRUE, end |-> c + 1,
                            group1 |-> SubSeq(s, b + 1, c - 1)]
                      ELSE NoMatch
             ELSE NoMatch

\* function_pattern  (\w+)\s+(\w+)\s*\([^)]*\)\s*{  matched at position i.
\* Every quantifier is followed by a character outside its class, so the
\* only match is the one with the longest runs.
CFunctionAt(s, i) ==
    LET a == RunEnd(s, i, WordChar)
        b == RunEnd(s, a, SpaceChar)
        c == RunEnd(s, b, WordChar)
        d == RunEnd(s, c, SpaceChar)
    IN  IF a > i /\ b > a /\ c > b /\ d <= Len(s) /\ s[d] = "("
        THEN LET e == RunEnd(s, d + 1, NotCloseParen)
             IN  IF e <= Len(s)
                 THEN LET f == RunEnd(s, e + 1, SpaceChar)
                      IN  IF f <= Len(s) /\ s[f] = "{"
                          THEN [matched |-> TRUE, end |-> f + 1,
                                group1 |-> SubSeq(s, i, a - 1),
                                group2 |-> SubSeq(s, b, c - 1)]
                          ELSE NoMatch
                 ELSE NoMatch
        ELSE NoMatch

\* struct_pattern  (struct|class|enum)\s+(\w+)  matched at position i
CStructAt(s, i) ==
    IF \E kw \in {KwStruct, KwClass, KwEnum} : LitAt(s, i, kw)
    THEN LET kw == CHOOSE k \in {KwStruct, KwClass, KwEnum} : LitAt(s, i, k)
             a  == i + Len(kw)
             b  == RunEnd(s, a, SpaceChar)
             c  == RunEnd(s, b, WordChar)
         IN  IF b > a /\ c > b
             THEN [matched |-> TRUE, end |-> c, group1 |-> kw,
                   group2 |-> SubSeq(s, b, c - 1)]
             ELSE NoMatch
    ELSE NoMatch

\* pattern.finditer(content): the matches from left to right, each search
\* starting where the match before it ended
RECURSIVE CIncludeMatches(_, _)
CIncludeMatches(s, pos) ==
    IF pos > Len(s) THEN <<>>
    ELSE LET m == CIncludeAt(s, pos)
         IN  IF m.matched THEN <<m>> \o CIncludeMatches(s, m.end)
             ELSE CIncludeMatches(s, pos + 1)

RECURSIVE CFunctionMatches(_, _)
CFunctionMatches(s, pos) ==
    IF pos > Len(s) THEN <<>>
    ELSE LET m == CFunctionAt(s, pos)
         IN  IF m.matched THEN <<m>> \o CFunctionMatches(s, m.end)
             ELSE CFunctionMatches(s, pos + 1)

RECURSIVE CStructMatches(_, _)
CStructMatches(s, pos) ==
    IF pos > Len(s) THEN <<>>
    ELSE LET m == CStructAt(s, pos)
         IN  IF m.matched THEN <<m>> \o CStructMatches(s, m.end)
             ELSE CStructMatches(s, pos + 1)

\* if match.group(1) not in ('if', 'for', 'while', 'switch')
CKeepsFunction(m) == m.group1 \notin ControlFlowKeywords

\* the loop over function_pattern.finditer(content)
CFunctions(s) ==
    LET kept == SelectSeq(CFunctionMatches(s, 1), CKeepsFunction)
    IN  [i \in 1..Len(kept) |-> kept[i].group2]

_analyze_c_cpp(s) ==
    LET inc == CIncludeMatches(s, 1)
        str == CStructMatches(s, 1)
    IN  [includes  |-> [i \in 1..Len(inc) |-> inc[i].group1],
         functions |-> CFunctions(s),
         structs   |-> [i \in 1..Len(str) |-> str[i].group1 \o <<" ">> \o str[i].group2]]

----------------------------------------------------------------------------
(* _analyze_python *)

KwFrom   == <<"f","r","o","m">>
KwImport == <<"i","m","p","o","r","t">>
KwDef    == <<"d","e","f">>

NotNewline == NoneOf({"\n"})
DefNameChar == NoneOf(SpaceChars \cup {"("})
ClassNameChar == NoneOf(SpaceChars \cup {":", "("})

\* no anchor: a match may start anywhere
AtAnyPosition(s, i) == TRUE

\* ^ under re.MULTILINE
AtLineStart(s, i) == i = 1 \/ s[i - 1] = "\n"

\* the tail  \s+(.+)$  of import_pattern after the keyword, from position t.
\* \s+ takes the longest run of white space after which a character other
\* than a newline follows; (.+) then runs to the end of that line.
PyImportTail(s, t) ==
    LET e == RunEnd(s, t, SpaceChar)
        starts == IF e <= Len(s) THEN (IF e > t THEN {e} ELSE {})
                  ELSE {k \in (t + 1)..(e - 1) : s[k] # "\n"}
    IN  IF starts = {} THEN NoMatch
        ELSE LET k == CHOOSE x \in starts : \A y \in starts : y <= x
                 eol == RunEnd(s, k, NotNewline)
             IN  [matched |-> TRUE, end |-> eol, group2 |-> SubSeq(s, k, eol - 1)]

\* import_pattern  ^(?:from\s+(\S+)\s+)?import\s+(.+)$  matched at position i
PyImportAt(s, i) ==
    IF ~AtLineStart(s, i) THEN NoMatch
    ELSE IF LitAt(s, i, KwFrom)
    THEN LET a == i + Len(KwFrom)
             b == RunEnd(s, a, SpaceChar)
             c == RunEnd(s, b, NonSpaceChar)
             d == RunEnd(s, c, SpaceChar)
         IN  IF b > a /\ c > b /\ d > c /\ LitAt(s, d, KwImport)
             THEN LET tail == PyImportTail(s, d + Len(KwImport))
                  IN  IF tail.matched
                      THEN [matched |-> TRUE, end |-> tail.end, from |-> TRUE,
                            group1 |-> SubSeq(s, b, c - 1), group2 |-> tail.group2]
                      ELSE NoMatch
             ELSE NoMatch
    ELSE IF LitAt(s, i, KwImport)
    THEN LET tail == PyImportTail(s, i + Len(KwImport))
         IN  IF tail.matched
             THEN [matched |-> TRUE, end |-> tail.end, from |-> FALSE,
                   group1 |-> Empty, group2 |-> tail.group2]
             ELSE NoMatch
    ELSE NoMatch

\* function_pattern  ^def\s+([^\s(]+)  matched at position i
PyDefAt(s, i) ==
    IF AtLineStart(s, i) /\ LitAt(s, i, KwDef)
    THEN LET a == i + Len(KwDef)
             b == RunEnd(s, a, SpaceChar)
             c == RunEnd(s, b, DefNameChar)
         IN  IF b > a /\ c > b
             THEN [matched |-> TRUE, end |-> c, group1 |-> SubSeq(s, b, c - 1)]
             ELSE NoMatch
    ELSE NoMatch

\* class_pattern  ^class\s+([^\s:(]+)  matched at position i
PyClassAt(s, i) ==
    IF AtLineStart(s, i) /\ LitAt(s, i, KwClass)
    THEN LET a == i + Len(KwClass)
             b == RunEnd(s, a, SpaceChar)
             c == RunEnd(s, b, ClassNameChar)
         IN  IF b > a /\ c > b
             THEN [matched |-> TRUE, end |-> c, group1 |-> SubSeq(s, b, c - 1)]
             ELSE NoMatch
    ELSE NoMatch

RECURSIVE PyImportMatches(_, _)
PyImportMatches(s, pos) ==
    IF pos > Len(s) THEN <<>>
    ELSE LET m == PyImportAt(s, pos)
         IN  IF m.matched THEN <<m>> \o PyImportMatches(s, m.end)
             ELSE PyImportMatches(s, pos + 1)

RECURSIVE PyDefMatches(_, _)
PyDefMatches(s, pos) ==
    IF pos > Len(s) THEN <<>>
    ELSE LET m == PyDefAt(s, pos)
         IN  IF m.matched THEN <<m>> \o PyDefMatches(s, m.end)
             ELSE PyDefMatches(s, pos + 1)

RECURSIVE PyClassMatches(_, _)
PyClassMatches(s, pos) ==
    IF pos > Len(s) THEN <<>>
    ELSE LET m == PyClassAt(s, pos)
         IN  IF m.matched THEN <<m>> \o PyClassMatches(s, m.end)
             ELSE PyClassMatches(s, pos + 1)

\* str.strip()
strip(s) ==
    IF \A i \in 1..Len(s) : InClass(s[i], SpaceChar) THEN Empty
    ELSE LET first == CHOOSE i \in 1..Len(s) :
                          ~InClass(s[i], SpaceChar) /\ \A j \in 1..(i - 1) : InClass(s[j], SpaceChar)
             last  == CHOOSE i \in 1..Len(s) :
                          ~InClass(s[i], SpaceChar) /\ \A j \in (i + 1)..Len(s) : InClass(s[j], SpaceChar)
         IN  SubSeq(s, first, last)

\* the names of an import match, all recorded as those of a plain import
PyImportItemsBare(m) ==
    LET items == SplitOn(m.group2, ",")
    IN  [i \in 1..Len(items) |-> strip(items[i])]

\* the names one import match appends to info['imports']
PyImportItems(m) ==
    LET items == SplitOn(m.group2, ",")
    IN  [i \in 1..Len(items) |->
            IF m.from THEN m.group1 \o Dot \o strip(items[i]) ELSE strip(items[i])]

_analyze_python(s) ==
    LET imp == PyImportMatches(s, 1)
        fun == PyDefMatches(s, 1)
        cls == PyClassMatches(s, 1)
    IN  [imports   |-> Flatten([i \in 1..Len(imp) |-> PyImportItems(imp[i])]),
         functions |-> [i \in 1..Len(fun) |-> fun[i].group1],
         classes   |-> [i \in 1..Len(cls) |-> cls[i].group1]]

----------------------------------------------------------------------------
(* _analyze_javascript *)

KwRequire  == <<"r","e","q","u","i","r","e">>
KwFunction == <<"f","u","n","c","t","i","o","n">>

Quotes == {"'", "\""}
NotQuote == NoneOf(Quotes)

\* import_pattern  (import|require)\s+.+?['"]([^'"]+)['"]  matched at
\* position i.  \s+ is greedy and gives back one character at a time; .+? is
\* lazy and takes at least one character, none of them a newline; the
\* quoted path is the longest run without a quote and must be closed.
JsImportAt(s, i) ==
    IF \E kw \in {KwImport, KwRequire} : LitAt(s, i, kw)
    THEN LET kw == CHOOSE w \in {KwImport, KwRequire} : LitAt(s, i, w)
             a  == i + Len(kw)
             b  == RunEnd(s, a, SpaceChar)
             Closed(q) == LET r == RunEnd(s, q + 1, NotQuote)
                          IN  r > q + 1 /\ r <= Len(s)
             Ok(k, q) == /\ \A j \in k..(q - 1) : s[j] # "\n"
                         /\ s[q] \in Quotes
                         /\ Closed(q)
             ks == {k \in (a + 1)..b : \E q \in (k + 1)..Len(s) : Ok(k, q)}
         IN  IF ks = {} THEN NoMatch
             ELSE LET k == CHOOSE x \in ks : \A y \in ks : y <= x
                      q == CHOOSE x \in (k + 1)..Len(s) :
                               Ok(k, x) /\ \A y \in (k + 1)..(x - 1) : ~Ok(k, y)
                      r == RunEnd(s, q + 1, NotQuote)
                  IN  [matched |-> TRUE, end |-> r + 1, group1 |-> kw,
                       group2 |-> SubSeq(s, q + 1, r - 1)]
    ELSE NoMatch

\* function_pattern  function\s+(\w+)|(\w+)\s*=\s*function  at position i
JsFunctionAt(s, i) ==
    LET a1 == i + Len(KwFunction)
        b1 == RunEnd(s, a1, SpaceChar)
        c1 == RunEnd(s, b1, WordChar)
        a2 == RunEnd(s, i, WordChar)
        b2 == RunEnd(s, a2, SpaceChar)
        c2 == RunEnd(s, b2 + 1, SpaceChar)
    IN  IF LitAt(s, i, KwFunction) /\ b1 > a1 /\ c1 > b1
        THEN [matched |-> TRUE, end |-> c1, group1 |-> SubSeq(s, b1, c1 - 1),
              group2 |-> Empty]
        ELSE IF a2 > i /\ b2 <= Len(s) /\ s[b2] = "=" /\ LitAt(s, c2, KwFunction)
        THEN [matched |-> TRUE, end |-> c2 + Len(KwFunction), group1 |-> Empty,
              group2 |-> SubSeq(s, i, a2 - 1)]
        ELSE NoMatch

\* class_pattern  class\s+(\w+)  matched at position i
JsClassAt(s, i) ==
    IF LitAt(s, i, KwClass)
    THEN LET a == i + Len(KwClass)
             b == RunEnd(s, a, SpaceChar)
             c == RunEnd(s, b, WordChar)
         IN  IF b > a /\ c > b
             THEN [matched |-> TRUE, end |-> c, group1 |-> SubSeq(s, b, c - 1)]
             ELSE NoMatch
    ELSE NoMatch

RECURSIVE JsImportMatches(_, _)
JsImportMatches(s, pos) ==
    IF pos > Len(s) THEN <<>>
    ELSE LET m == JsImportAt(s, pos)
         IN  IF m.matched THEN <<m>> \o JsImportMatches(s, m.end)
             ELSE JsImportMatches(s, pos + 1)

RECURSIVE JsFunctionMatches(_, _)
JsFunctionMatches(s, pos) ==
    IF pos > Len(s) THEN <<>>
    ELSE LET m == JsFunctionAt(s, pos)
         IN  IF m.matched THEN <<m>> \o JsFunctionMatches(s, m.end)
             ELSE JsFunctionMatches(s, pos + 1)

RECURSIVE JsClassMatches(_, _)
JsClassMatches(s, pos) ==
    IF pos > Len(s) THEN <<>>
    ELSE LET m == JsClassAt(s, pos)
         IN  IF m.matched THEN <<m>> \o JsClassMatches(s, m.end)
             ELSE JsClassMatches(s, pos + 1)

\* func_name = match.group(1) or match.group(2)
JsFuncName(m) == IF m.group1 # Empty THEN m.group1 ELSE m.group2

_analyze_javascript(s) ==
    LET imp == JsImportMatches(s, 1)
        fun == SelectSeq(JsFunctionMatches(s, 1), LAMBDA m : JsFuncName(m) # Empty)
        cls == JsClassMatches(s, 1)
    IN  [imports   |-> [i \in 1..Len(imp) |-> imp[i].group2],
         functions |-> [i \in 1..Len(fun) |-> JsFuncName(fun[i])],
         classes   |-> [i \in 1..Len(cls) |-> cls[i].group1]]

----------------------------------------------------------------------------
(* ProjectAnalyzer: read_file and analyze_file *)

\* a key normalised to the absolute path
CacheKeyAbsolute(file_path) == abspath(file_path)

\* the key read_file looks up and stores under
CacheKey(file_path) == file_path

\* a failure that is not caught
ReadFailureRaises(cache) ==
    [value |-> Empty, cache |-> cache, ok |-> FALSE, raised |-> TRUE]

\* the `except Exception` branch of read_file: a diagnostic is printed and
\* the empty string returned
ReadFailure(cache) ==
    [value |-> Empty, cache |-> cache, ok |-> FALSE, raised |-> FALSE]

\* a read_file that never looks into the cache
read_file_uncached(cache, tree, file_path) ==
    IF CanOpen(tree, file_path)
    THEN [value |-> tree[Resolve(file_path)].content,
          cache |-> Put(cache, file_path, tree[Resolve(file_path)].content),
          ok |-> TRUE, raised |-> FALSE]
    ELSE [value |-> Empty, cache |-> cache, ok |-> FALSE, raised |-> FALSE]

\* a read_file that drops a cached text whose file can no longer be opened
read_file_revalidating(cache, tree, file_path) ==
    IF CanOpen(tree, file_path)
    THEN [value |-> IF file_path \in DOMAIN cache THEN cache[file_path]
                    ELSE tree[Resolve(file_path)].content,
          cache |-> IF file_path \in DOMAIN cache THEN cache
                    ELSE Put(cache, file_path, tree[Resolve(file_path)].content),
          ok |-> TRUE, raised |-> FALSE]
    ELSE [value |-> Empty, cache |-> [k \in DOMAIN cache \ {file_path} |-> cache[k]],
          ok |-> FALSE, raised |-> FALSE]

\* read_file: the text returned, the cache afterwards, whether the text came
\* from the cache or the file, whether an exception escaped
read_file(cache, tree, file_path) ==
    IF CacheKey(file_path) \in DOMAIN cache
    THEN [value |-> cache[CacheKey(file_path)], cache |-> cache,
          ok |-> TRUE, raised |-> FALSE]
    ELSE IF CanOpen(tree, file_path)
    THEN [value |-> tree[Resolve(file_path)].content,
          cache |-> Put(cache, CacheKey(file_path), tree[Resolve(file_path)].content),
          ok |-> TRUE, raised |-> FALSE]
    ELSE ReadFailure(cache)

XPy  == <<"p","y">>
XJs  == <<"j","s">>
XC   == <<"c">>
XCpp == <<"c","p","p">>
XH   == <<"h">>

\* a type that keeps the extension's case
FileTypeAsWritten(file_path) == lstripDots(splitext(file_path)[2])

\* ext = os.path.splitext(file_path)[1].lower().lstrip('.')
FileType(file_path) == lstripDots(lower(splitext(file_path)[2]))

\* content.count('\n')
\* the length of the text instead of its newline count
CountCharacters(text) == Len(text)

CountNewlines(text) == Cardinality({i \in 1..Len(text) : text[i] = "\n"})

\* the four base fields of file_info
BaseInfo(file_path, text) ==
    [path |-> file_path, type |-> FileType(file_path),
     lines |-> CountNewlines(text) + 1, size |-> Len(text)]

\* the language-specific fields file_info.update() adds
LanguageInfo(ext, text) ==
    IF ext \in {XPy, XJs, XC, XCpp, XH}
    THEN IF ext = XPy THEN _analyze_python(text)
         ELSE IF ext \in {XC, XCpp, XH} THEN _analyze_c_cpp(text)
         ELSE _analyze_javascript(text)
    ELSE <<>>

\* analyze_file once the content is at hand
file_info(file_path, text) ==
    LanguageInfo(FileType(file_path), text) @@ BaseInfo(file_path, text)

\* str.splitlines() for the line boundaries \n, \r, \r\n and \f
LineBoundaries == {"\n", "\r", "\f"}

RECURSIVE splitlines(_)
splitlines(s) ==
    IF s = Empty THEN <<>>
    ELSE IF \E i \in 1..Len(s) : s[i] \in LineBoundaries
    THEN LET i == CHOOSE k \in 1..Len(s) :
                      s[k] \in LineBoundaries /\ \A j \in 1..(k - 1) : s[j] \notin LineBoundaries
             n == IF s[i] = "\r" /\ i < Len(s) /\ s[i + 1] = "\n" THEN 2 ELSE 1
         IN  <<SubSeq(s, 1, i - 1)>> \o splitlines(SubSeq(s, i + n, Len(s)))
    ELSE <<s>>

Max(a, b) == IF a >= b THEN a ELSE b
Min(a, b) == IF a <= b THEN a ELSE b

\* get_file_context once the content is read: the content itself, or the
\* lines around line_number joined by newlines
file_context(text, line, context_lines) ==
    IF ~line.given THEN text
    ELSE LET lines == splitlines(text)
             start == Max(0, line.number - context_lines - 1)
             end   == Min(Len(lines), line.number + context_lines)
         IN  JoinWith(<<"\n">>, SubSeq(lines, start + 1, end))

\* a test made only when the content has to be read
AnalyzeFileChecksPathToRead(given) == ~given

\* analyze_file's test of its path, before anything else
AnalyzeFileChecksPath(given) == TRUE

----------------------------------------------------------------------------
(* Calls and their outcomes *)

NoCall == [op |-> "none"]
Raised(op, path, exc) == [op |-> op, path |-> path, kind |-> "raise", exc |-> exc]
Returned(op, path, value) == [op |-> op, path |-> path, kind |-> "ok", value |-> value]

\* The spellings of the paths an operation is called with: relative to the
\* working directory and absolute
Spellings(c) ==
    { IF c = <<>> THEN Dot ELSE JoinWith(Slash, c), Slash \o JoinWith(Slash, c) }

ProbeNames == {NApp, NAJs}

\* the paths of the tree, the root, paths the cache or the history knows,
\* and some that may not exist
Candidates ==
    {<<>>} \cup DOMAIN fs \cup {<<n>> : n \in ProbeNames}
    \cup {Resolve(k) : k \in DOMAIN file_cache \cup DOMAIN firstRead}

PathArgs == UNION {Spellings(c) : c \in Candidates}

\* analyze_file's content argument: None or a text
NoContent == [given |-> FALSE]
ContentArgs == {NoContent} \cup {[given |-> TRUE, text |-> t] : t \in Texts}

\* main() is started with --project-path, "." by default
ProjectPaths == {Dot}

\* the history after read_file(p) returned r
NoteFirst(p, r) == IF p \in DOMAIN firstRead THEN firstRead ELSE Put(firstRead, p, r.value)
NoteOk(p, r) == IF p \notin DOMAIN okRead /\ r.ok THEN Put(okRead, p, r.value) ELSE okRead

MayRead(p) == p \in DOMAIN firstRead \/ Cardinality(DOMAIN firstRead) < MaxReadPaths

----------------------------------------------------------------------------
(* The environment: the file system changes under the analyzer *)

ParentDirs == {<<>>} \cup {c \in DOMAIN fs : fs[c].kind = "dir" /\ Len(c) < MaxDepth}

MkDir(max, names) ==
    /\ ret = NoCall
    /\ Cardinality(DOMAIN fs) < max
    /\ \E d \in ParentDirs, n \in names :
          /\ Append(d, n) \notin DOMAIN fs
          /\ fs' = Put(fs, Append(d, n), DirNode)
    /\ UNCHANGED <<ignored_dirs, file_cache, ret, firstRead, okRead, content, peer_cache, loopVars>>

CreateFile(max, names, texts) ==
    /\ ret = NoCall
    /\ Cardinality(DOMAIN fs) < max
    /\ \E d \in ParentDirs, n \in names, t \in texts :
          /\ Append(d, n) \notin DOMAIN fs
          /\ fs' = Put(fs, Append(d, n), FileNode(t, TRUE))
    /\ UNCHANGED <<ignored_dirs, file_cache, ret, firstRead, okRead, content, peer_cache, loopVars>>

\* a file's content changes on disk
WriteFile ==
    /\ ret = NoCall
    /\ \E c \in DOMAIN fs, t \in Texts :
          /\ fs[c].kind = "file"
          /\ fs[c].content # t
          /\ fs' = [fs EXCEPT ![c].content = t]
    /\ UNCHANGED <<ignored_dirs, file_cache, ret, firstRead, okRead, content, peer_cache, loopVars>>

\* a file becomes unreadable or readable
Chmod ==
    /\ ret = NoCall
    /\ \E c \in DOMAIN fs :
          /\ fs[c].kind = "file"
          /\ fs' = [fs EXCEPT ![c].readable = ~@]
    /\ UNCHANGED <<ignored_dirs, file_cache, ret, firstRead, okRead, content, peer_cache, loopVars>>

\* a file or an empty directory is removed
Remove ==
    /\ ret = NoCall
    /\ \E c \in DOMAIN fs :
          /\ \A d \in DOMAIN fs : IsPrefix(c, d) => d = c
          /\ fs' = [d \in DOMAIN fs \ {c} |-> fs[d]]
    /\ UNCHANGED <<ignored_dirs, file_cache, ret, firstRead, okRead, content, peer_cache, loopVars>>

----------------------------------------------------------------------------
(* The operations of ProjectAnalyzer, called one at a time *)

AnalyzeProject ==
    /\ ret = NoCall
    /\ \E project_path \in PathArgs, order \in ScanOrders :
          ret' = IF ~exists(fs, project_path)
                 THEN Raised("analyze_project", project_path, "FileNotFoundError")
                 ELSE Returned("analyze_project", project_path,
                               analyze_project(fs, project_path, order, ignored_dirs))
    /\ UNCHANGED <<fs, ignored_dirs, file_cache, firstRead, okRead, content, peer_cache, loopVars>>

GetProjectSummary ==
    /\ ret = NoCall
    /\ \E project_path \in PathArgs, order \in ScanOrders :
          ret' = IF ~exists(fs, project_path)
                 THEN Raised("get_project_summary", project_path, "FileNotFoundError")
                 ELSE LET project_info ==
                              analyze_project(fs, project_path, order, ignored_dirs)
                      IN  [op |-> "get_project_summary", path |-> project_path,
                           kind |-> "ok", value |-> get_project_summary(project_info),
                           project_info |-> project_info]
    /\ UNCHANGED <<fs, ignored_dirs, file_cache, firstRead, okRead, content, peer_cache, loopVars>>

ReadFile ==
    /\ ret = NoCall
    /\ \E file_path \in PathArgs :
          /\ MayRead(file_path)
          /\ LET r == read_file(file_cache, fs, file_path)
             IN  /\ ret' = IF r.raised THEN Raised("read_file", file_path, "OSError")
                           ELSE Returned("read_file", file_path, r.value)
                 /\ file_cache' = r.cache
                 /\ firstRead' = NoteFirst(file_path, r)
                 /\ okRead' = NoteOk(file_path, r)
    /\ UNCHANGED <<fs, ignored_dirs, content, peer_cache, loopVars>>

AnalyzeFile ==
    /\ ret = NoCall
    /\ \E file_path \in PathArgs, arg \in ContentArgs :
          IF AnalyzeFileChecksPath(arg.given) /\ ~exists(fs, file_path)
          THEN /\ ret' = [op |-> "analyze_file", path |-> file_path, arg |-> arg,
                          kind |-> "raise", exc |-> "FileNotFoundError"]
               /\ UNCHANGED <<file_cache, firstRead, okRead>>
          ELSE IF arg.given
          THEN /\ ret' = [op |-> "analyze_file", path |-> file_path, arg |-> arg,
                          kind |-> "ok", value |-> file_info(file_path, arg.text)]
               /\ UNCHANGED <<file_cache, firstRead, okRead>>
          ELSE /\ MayRead(file_path)
               /\ LET r == read_file(file_cache, fs, file_path)
                  IN  /\ ret' = IF r.raised
                                THEN [op |-> "analyze_file", path |-> file_path,
                                      arg |-> arg, kind |-> "raise", exc |-> "OSError"]
                                ELSE [op |-> "analyze_file", path |-> file_path,
                                      arg |-> arg, kind |-> "ok",
                                      value |-> file_info(file_path, r.value)]
                      /\ file_cache' = r.cache
                      /\ firstRead' = NoteFirst(file_path, r)
                      /\ okRead' = NoteOk(file_path, r)
    /\ UNCHANGED <<fs, ignored_dirs, content, peer_cache, loopVars>>

\* main.analyze_file up to its analyzer calls (the `analyze <file>` command):
\* the path is joined to the project path, tested, read and analyzed; an
\* exception is caught and printed
MainAnalyzeFile ==
    /\ ret = NoCall
    /\ \E project_path \in ProjectPaths, file_path \in PathArgs :
          LET full_path == join(project_path, file_path)
          IN  IF ~exists(fs, full_path)
              THEN /\ ret' = [op |-> "main.analyze_file", path |-> full_path,
                              kind |-> "ok", found |-> FALSE]
                   /\ UNCHANGED <<file_cache, firstRead, okRead>>
              ELSE /\ MayRead(full_path)
                   /\ LET r == read_file(file_cache, fs, full_path)
                      IN  /\ ret' = IF r.raised
                                    THEN [op |-> "main.analyze_file", path |-> full_path,
                                          kind |-> "ok", found |-> TRUE, printed |-> "Error"]
                                    ELSE [op |-> "main.analyze_file", path |-> full_path,
                                          kind |-> "ok", found |-> TRUE,
                                          value |-> file_info(full_path, r.value)]
                          /\ file_cache' = r.cache
                          /\ firstRead' = NoteFirst(full_path, r)
                          /\ okRead' = NoteOk(full_path, r)
    /\ UNCHANGED <<fs, ignored_dirs, content, peer_cache, loopVars>>

\* the caller has taken the outcome of its call and goes on
Continue ==
    /\ ret # NoCall
    /\ ret' = NoCall
    /\ UNCHANGED <<fs, ignored_dirs, file_cache, firstRead, okRead, content, peer_cache, loopVars>>

----------------------------------------------------------------------------
(* The analyzer over a changing file system *)

Init ==
    /\ fs = <<>>
    /\ ignored_dirs = IgnorePatterns
    /\ file_cache = <<>>
    /\ ret = NoCall
    /\ firstRead = <<>>
    /\ okRead = <<>>
    /\ peer_cache = <<>>
    /\ LoopOff
    /\ content = Empty

Next ==
    \/ MkDir(MaxEntries, CacheDirNames)
    \/ CreateFile(MaxEntries, CacheFileNames, Texts)
    \/ WriteFile
    \/ Chmod
    \/ Remove
    \/ AnalyzeProject
    \/ GetProjectSummary
    \/ ReadFile
    \/ AnalyzeFile
    \/ MainAnalyzeFile
    \/ Continue

Spec == Init /\ [][Next]_vars

----------------------------------------------------------------------------
(* The directory walk on its own: trees grow, the analyzer walks them *)

InitWalk ==
    /\ fs = <<>>
    /\ ignored_dirs \in SUBSET IgnorePatterns
    /\ file_cache = <<>>
    /\ ret = NoCall
    /\ firstRead = <<>>
    /\ okRead = <<>>
    /\ peer_cache = <<>>
    /\ LoopOff
    /\ content = Empty

NextWalk ==
    \/ MkDir(MaxWalkEntries, DirNames)
    \/ CreateFile(MaxWalkEntries, WalkFileNames, {TEmpty})
    \/ AnalyzeProject
    \/ GetProjectSummary
    \/ Continue

SpecWalk == InitWalk /\ [][NextWalk]_vars

----------------------------------------------------------------------------
(* analyze_file over files of every kind of name *)

NextTypes ==
    \/ MkDir(MaxEntries, {NLibD})
    \/ CreateFile(MaxEntries, FileNames, Texts)
    \/ AnalyzeFile
    \/ MainAnalyzeFile
    \/ Continue

SpecTypes == Init /\ [][NextTypes]_vars

----------------------------------------------------------------------------
(* The C/C++ extractor on its own, applied to texts built from lexemes *)

LIf     == <<"i","f">>
LElse   == <<"e","l","s","e">>
LInt    == <<"i","n","t">>
LAdd    == <<"a","d","d">>
LWhile  == <<"w","h","i","l","e">>
LFor    == <<"f","o","r">>
LSwitch == <<"s","w","i","t","c","h">>
LSpace  == <<" ">>
LLine   == <<"\n">>
LArgs   == <<"(","x",")"," ","{">>

CLexemes == {LIf, LElse, LInt, LAdd, LWhile, LFor, LSwitch, LSpace, LLine, LArgs}

\* the texts of at most n lexemes
RECURSIVE LexTexts(_, _)
LexTexts(lexemes, n) ==
    IF n = 0 THEN {Empty}
    ELSE LET shorter == LexTexts(lexemes, n - 1)
         IN  shorter \cup {t \o l : t \in shorter, l \in lexemes}

InitC ==
    /\ fs = <<>>
    /\ ignored_dirs = {}
    /\ file_cache = <<>>
    /\ ret = NoCall
    /\ firstRead = <<>>
    /\ okRead = <<>>
    /\ peer_cache = <<>>
    /\ LoopOff
    /\ content \in LexTexts(CLexemes, MaxLexemes)

ExtractC ==
    /\ ret = NoCall
    /\ ret' = [op |-> "_analyze_c_cpp", kind |-> "ok", value |-> _analyze_c_cpp(content)]
    /\ UNCHANGED <<fs, ignored_dirs, file_cache, firstRead, okRead, content, peer_cache, loopVars>>

NextC ==
    \/ ExtractC
    \/ Continue

SpecC == InitC /\ [][NextC]_vars

----------------------------------------------------------------------------
(* The JavaScript extractor on its own, applied to texts built from lexemes *)

JImportXFrom == <<"i","m","p","o","r","t"," ","x"," ","f","r","o","m"," ">>
JImport      == <<"i","m","p","o","r","t">>
JRequire     == <<"r","e","q","u","i","r","e">>
JCallM       == <<"(","'","m","'",")">>
JQuotedM     == <<"'","m","'">>
JQuotedN     == <<"\"","n","\"">>
JAssign      == <<"x"," ","="," ">>

JsLexemes == {JImportXFrom, JImport, JRequire, JCallM, JQuotedM, JQuotedN, JAssign,
              LSpace, LLine}

InitJs ==
    /\ fs = <<>>
    /\ ignored_dirs = {}
    /\ file_cache = <<>>
    /\ ret = NoCall
    /\ firstRead = <<>>
    /\ okRead = <<>>
    /\ peer_cache = <<>>
    /\ LoopOff
    /\ content \in LexTexts(JsLexemes, MaxLexemes)

ExtractJs ==
    /\ ret = NoCall
    /\ ret' = [op |-> "_analyze_javascript", kind |-> "ok",
               value |-> _analyze_javascript(content)]
    /\ UNCHANGED <<fs, ignored_dirs, file_cache, firstRead, okRead, content, peer_cache, loopVars>>

NextJs ==
    \/ ExtractJs
    \/ Continue

SpecJs == InitJs /\ [][NextJs]_vars

----------------------------------------------------------------------------
(* The Python extractor on its own, applied to import lines built from lexemes *)

PImportOs      == <<"i","m","p","o","r","t"," ","o","s">>
PFromSys       == <<"f","r","o","m"," ","s","y","s">>
PFromSysImport == <<"f","r","o","m"," ","s","y","s"," ","i","m","p","o","r","t"," ">>
POs            == <<"o","s">>
PNames         == <<"a"," ",","," ","b">>

PyImportLexemes == {KwImport, PImportOs, PFromSys, PFromSysImport, POs, PNames,
                    LSpace, LLine}

InitPyImports ==
    /\ fs = <<>>
    /\ ignored_dirs = {}
    /\ file_cache = <<>>
    /\ ret = NoCall
    /\ firstRead = <<>>
    /\ okRead = <<>>
    /\ peer_cache = <<>>
    /\ LoopOff
    /\ content \in LexTexts(PyImportLexemes, MaxLexemes)

ExtractPy ==
    /\ ret = NoCall
    /\ ret' = [op |-> "_analyze_python", kind |-> "ok",
               value |-> _analyze_python(content)]
    /\ UNCHANGED <<fs, ignored_dirs, file_cache, firstRead, okRead, content, peer_cache, loopVars>>

NextPy ==
    \/ ExtractPy
    \/ Continue

SpecPyImports == InitPyImports /\ [][NextPy]_vars

----------------------------------------------------------------------------
(* The Python extractor applied to def and class lines built from lexemes *)

PDefF   == <<"d","e","f"," ","f","(">>
PClassA == <<"c","l","a","s","s"," ","A",":">>
PNameG  == <<"g">>
PColon  == <<":">>

PyDefLexemes == {KwDef, KwClass, PDefF, PClassA, PNameG, PColon, LSpace, LLine}

InitPyDefs ==
    /\ fs = <<>>
    /\ ignored_dirs = {}
    /\ file_cache = <<>>
    /\ ret = NoCall
    /\ firstRead = <<>>
    /\ okRead = <<>>
    /\ peer_cache = <<>>
    /\ LoopOff
    /\ content \in LexTexts(PyDefLexemes, MaxLexemes)

SpecPyDefs == InitPyDefs /\ [][NextPy]_vars

----------------------------------------------------------------------------
(* get_file_context, and a second ProjectAnalyzer instance over the same
   file system *)

\* get_file_context's line_number: None or a line
NoLine == [given |-> FALSE]
LineArgs == {NoLine} \cup {[given |-> TRUE, number |-> n] : n \in 1..MaxLineNumber}

\* context_lines: none, or the default
ContextArgs == {0, 5}

GetFileContext ==
    /\ ret = NoCall
    /\ \E file_path \in PathArgs, line \in LineArgs, context_lines \in ContextArgs :
          /\ MayRead(file_path)
          /\ LET r == read_file(file_cache, fs, file_path)
             IN  /\ ret' = IF r.raised
                           THEN Raised("get_file_context", file_path, "OSError")
                           ELSE Returned("get_file_context", file_path,
                                         file_context(r.value, line, context_lines))
                 /\ file_cache' = r.cache
                 /\ firstRead' = NoteFirst(file_path, r)
                 /\ okRead' = NoteOk(file_path, r)
    /\ UNCHANGED <<fs, ignored_dirs, content, peer_cache, loopVars>>

\* the paths the second instance is called with
PeerPathArgs == PathArgs \cup DOMAIN peer_cache
MayPeerRead(p) == p \in DOMAIN peer_cache \/ Cardinality(DOMAIN peer_cache) < MaxPeerPaths

PeerReadFile ==
    /\ ret = NoCall
    /\ \E file_path \in PeerPathArgs :
          /\ MayPeerRead(file_path)
          /\ LET r == read_file(peer_cache, fs, file_path)
             IN  /\ ret' = IF r.raised THEN Raised("peer.read_file", file_path, "OSError")
                           ELSE Returned("peer.read_file", file_path, r.value)
                 /\ peer_cache' = r.cache
    /\ UNCHANGED <<fs, ignored_dirs, file_cache, firstRead, okRead, content, loopVars>>

PeerAnalyzeFile ==
    /\ ret = NoCall
    /\ \E file_path \in PeerPathArgs :
          IF ~exists(fs, file_path)
          THEN /\ ret' = Raised("peer.analyze_file", file_path, "FileNotFoundError")
               /\ UNCHANGED peer_cache
          ELSE /\ MayPeerRead(file_path)
               /\ LET r == read_file(peer_cache, fs, file_path)
                  IN  /\ ret' = IF r.raised
                                THEN Raised("peer.analyze_file", file_path, "OSError")
                                ELSE Returned("peer.analyze_file", file_path,
                                              file_info(file_path, r.value))
                      /\ peer_cache' = r.cache
    /\ UNCHANGED <<fs, ignored_dirs, file_cache, firstRead, okRead, content, loopVars>>

PeerGetFileContext ==
    /\ ret = NoCall
    /\ \E file_path \in PeerPathArgs, line \in LineArgs, context_lines \in ContextArgs :
          /\ MayPeerRead(file_path)
          /\ LET r == read_file(peer_cache, fs, file_path)
             IN  /\ ret' = IF r.raised
                           THEN Raised("peer.get_file_context", file_path, "OSError")
                           ELSE Returned("peer.get_file_context", file_path,
                                         file_context(r.value, line, context_lines))
                 /\ peer_cache' = r.cache
    /\ UNCHANGED <<fs, ignored_dirs, file_cache, firstRead, okRead, content, loopVars>>

\* analyze_project and get_project_summary of the second instance
PeerWalk ==
    /\ ret = NoCall
    /\ \E project_path \in PeerPathArgs, order \in ScanOrders :
          ret' = IF ~exists(fs, project_path)
                 THEN Raised("peer.get_project_summary", project_path, "FileNotFoundError")
                 ELSE Returned("peer.get_project_summary", project_path,
                               get_project_summary(
                                   analyze_project(fs, project_path, order, ignored_dirs)))
    /\ UNCHANGED <<fs, ignored_dirs, file_cache, firstRead, okRead, content, peer_cache, loopVars>>

NextInstances ==
    \/ CreateFile(MaxEntries, CacheFileNames, Texts)
    \/ WriteFile
    \/ Chmod
    \/ Remove
    \/ AnalyzeProject
    \/ GetProjectSummary
    \/ ReadFile
    \/ AnalyzeFile
    \/ GetFileContext
    \/ PeerReadFile
    \/ PeerAnalyzeFile
    \/ PeerGetFileContext
    \/ PeerWalk
    \/ Continue

SpecInstances == Init /\ [][NextInstances]_vars

----------------------------------------------------------------------------
(* The interactive loop: what it reads, writes and prints *)

KExit == <<"e","x","i","t">>
KQuit == <<"q","u","i","t">>
KHelp == <<"h","e","l","p">>
KAnalyze == <<"a","n","a","l","y","z","e"," ">>
KRepo == <<"r","e","p","o"," ">>
KError == <<"e","r","r","o","r"," ">>
KGenerate == <<"g","e","n","e","r","a","t","e"," ">>
KSaveHistory == <<"s","a","v","e","_","h","i","s","t","o","r","y"," ">>

\* str.startswith
startswith(s, prefix) == IsPrefix(prefix, s)

\* s[n:]
SliceFrom(s, n) == SubSeq(s, n + 1, Len(s))

\* os.path.isdir
isdir(tree, p) == IsDir(tree, Resolve(p))

\* the backquote, which a string of this language cannot hold
BQ == "~"

\* the title line of a conversation file, its date and time as the format
\* %Y-%m-%d %H:%M:%S spells them
HeaderTitle ==
    <<"#"," ","O","f","f","l","i","n","e"," ","C","o","d","e"," ","A","s","s",
      "i","s","t","a","n","t"," ","C","o","n","v","e","r","s","a","t","i","o",
      "n"," ","-"," ","Y","Y","Y","Y","-","m","m","-","d","d"," ","H","H",":",
      "M","M",":","S","S","\n","\n">>

\* the Model and Project lines and the rule, for a model m and a project p
HeaderMeta ==
    <<"M","o","d","e","l",":"," ","m","\n","P","r","o","j","e","c","t",":",
      " ","p","\n","\n","-","-","-","\n","\n">>

\* the header the loop writes into a fresh conversation file
HeaderText == HeaderTitle \o HeaderMeta

UserOpen == <<"#","#"," ","U","s","e","r","\n","\n",BQ,BQ,BQ,"\n">>
UserClose == <<"\n",BQ,BQ,BQ,"\n","\n">>
AssistantOpen == <<"#","#"," ","A","s","s","i","s","t","a","n","t","\n","\n">>
AssistantClose == <<"\n","\n">>

\* what save_conversation writes for one (role, content)
FormatEntry(entry) ==
    IF entry[1] = "user" THEN UserOpen \o entry[2] \o UserClose
    ELSE AssistantOpen \o entry[2] \o AssistantClose

RECURSIVE FormatEntries(_)
FormatEntries(history) ==
    IF history = <<>> THEN Empty
    ELSE FormatEntry(Head(history)) \o FormatEntries(Tail(history))

\* the text save_conversation writes: the title and every entry in order
ConversationText(history) == HeaderTitle \o FormatEntries(history)

\* save_conversation: the file is opened for writing and written anew
save_conversation(files, file_path, history) ==
    Put(files, file_path, ConversationText(history))

\* the bytes of a file after a buffered handle at offset 0 is closed over
\* what another handle has written meanwhile
WriteOver(under, over) == over \o SubSeq(under, Len(over) + 1, Len(under))

\* conversation_{timestamp}.md and {new_filename}.md in the history folder
ConversationPath == <<"c","_","t",".","m","d">>
NamedPath(new_filename) == new_filename \o <<".","m","d">>

BoundTo(path) == [bound |-> TRUE, path |-> path]

Fence == <<BQ,BQ,BQ>>

\* the pattern of _extract_code: a fence, (?:\w+)?, \n, (.*?) and a fence,
\* with re.DOTALL, tried at position i
CodeBlockAt(s, i) ==
    IF ~LitAt(s, i, Fence) THEN NoMatch
    ELSE LET j == RunEnd(s, i + 3, WordChar)
         IN  IF j <= Len(s) /\ s[j] = "\n"
                /\ \E k \in (j + 1)..Len(s) : LitAt(s, k, Fence)
             THEN LET k == CHOOSE k \in (j + 1)..Len(s) :
                               LitAt(s, k, Fence)
                               /\ \A l \in (j + 1)..(k - 1) : ~LitAt(s, l, Fence)
                  IN  [matched |-> TRUE, group |-> SubSeq(s, j + 1, k - 1)]
             ELSE NoMatch

\* CodeGenerator._extract_code: the first fenced block, stripped, or the
\* whole response, stripped
_extract_code(response) ==
    IF \E i \in 1..Len(response) : CodeBlockAt(response, i).matched
    THEN LET i == CHOOSE i \in 1..Len(response) :
                      CodeBlockAt(response, i).matched
                      /\ \A l \in 1..(i - 1) : ~CodeBlockAt(response, l).matched
         IN  strip(CodeBlockAt(response, i).group)
    ELSE strip(response)

\* the types main.analyze_file sends to the LLM
XMd == <<"m","d">>
XTxt == <<"t","x","t">>
XJson == <<"j","s","o","n">>
XYaml == <<"y","a","m","l">>
XYml == <<"y","m","l">>
LlmFileTypes == {XPy, XJs, XC, XCpp, XH, XMd, XTxt, XJson, XYaml, XYml}

----------------------------------------------------------------------------
(* The interactive loop: run_interactive_loop as a state machine.  The loop
   blocks at the prompt, in a query of the LLM and, after an interrupt, in
   input(); Ctrl+C and the end of the input arrive at these points.  Writes
   to the history folder succeed. *)

\* what is typed at the prompt
UserInputs ==
    { KExit, <<"Q","u","i","t">>, KExit \o <<" ">>, Empty, <<" ">>, KHelp, <<"h","i">>,
      KAnalyze \o NAJs, KAnalyze \o <<"x">>, KRepo \o NApp, KError \o <<"e">>,
      KGenerate \o <<"g">>, SubSeq(KSaveHistory, 1, 12), KSaveHistory,
      KSaveHistory \o <<"n">> }

\* what the LLM answers: llm_manager.query returns the stripped output
Responses == { <<"o","k">>, <<"s"," ">> \o Fence \o <<"\n","x","\n">> \o Fence }

\* the tree the loop runs over and the parent directory of the project
LoopTree == (<<NAJs>> :> FileNode(TTwo, TRUE)) @@ (<<NApp>> :> DirNode)
ParentDirArgs == {NoParent, [given |-> TRUE, path |-> Slash]}

\* the state the loop body leaves: where the loop stands, what it printed,
\* and its locals and files
Outcome(next, printed, save, history, file, files) ==
    [pc |-> next, printed |-> printed, save_history |-> save,
     conversation_history |-> history, conversation_file |-> file,
     history_files |-> files]

Unchanged(next, printed) ==
    Outcome(next, printed, save_history, conversation_history, conversation_file,
            history_files)

\* the commands whose call passes conversation_file
PassesConversationFile(u) ==
    \/ startswith(u, KAnalyze)
    \/ startswith(u, KRepo)
    \/ startswith(u, KError)
    \/ startswith(u, KGenerate)

\* the path main.analyze_file tests and reads for the input u
AnalyzedPath(project_path, u) == join(project_path, strip(SliceFrom(u, 8)))

\* the input u makes main.analyze_file read its file
ReadsFile(project_path, u) ==
    /\ lower(u) \notin {KExit, KQuit}
    /\ strip(u) # Empty
    /\ u # KHelp
    /\ startswith(u, KAnalyze)
    /\ conversation_file.bound
    /\ exists(fs, AnalyzedPath(project_path, u))

\* main.analyze_file up to its query of the LLM
analyze_file_command(project_path, u, history, files) ==
    LET full_path == AnalyzedPath(project_path, u)
    IN  IF ~exists(fs, full_path)
        THEN Outcome("prompt", "File not found", save_history, history,
                     conversation_file, files)
        ELSE LET r == read_file(file_cache, fs, full_path)
                 \* file_info['type']: a base field, which no extractor sets
                 ext == BaseInfo(full_path, r.value).type
             IN  IF ext \in LlmFileTypes
                 THEN Outcome("query", "File Analysis", save_history, history,
                              conversation_file, files)
                 ELSE Outcome("prompt", "File Analysis", save_history, history,
                              conversation_file, files)

\* main.analyze_repo up to its query of the LLM
analyze_repo_command(u, history, files) ==
    LET folder_name == strip(SliceFrom(u, 5))
    IN  IF ~parent_dir.given
        THEN Outcome("prompt", "Parent directory context is not enabled",
                     save_history, history, conversation_file, files)
        ELSE IF ~exists(fs, join(parent_dir.path, folder_name))
                \/ ~isdir(fs, join(parent_dir.path, folder_name))
        THEN Outcome("prompt", "Folder not found", save_history, history,
                     conversation_file, files)
        ELSE Outcome("query", "Project Summary", save_history, history,
                     conversation_file, files)

\* the save_history command
save_history_command(u, history, files) ==
    IF ~save_history
    THEN Outcome("prompt", "Saving conversation to", TRUE, history,
                 BoundTo(ConversationPath), Put(files, ConversationPath, HeaderText))
    ELSE LET new_filename == strip(SliceFrom(u, 13))
         IN  IF new_filename # Empty
             THEN Outcome("prompt", "Now saving conversation to", save_history, history,
                          BoundTo(NamedPath(new_filename)),
                          Put(files, NamedPath(new_filename),
                              WriteOver(ConversationText(history), HeaderText)))
             ELSE Outcome("prompt", "", save_history, history, conversation_file, files)

\* the if/elif chain of the loop body, after the input has been recorded
Dispatch(project_path, u, history, files) ==
    IF u = KHelp
    THEN Outcome("prompt", "help", save_history, history, conversation_file, files)
    ELSE IF PassesConversationFile(u) /\ ~conversation_file.bound
    THEN Outcome("prompt", "Error: UnboundLocalError", save_history, history,
                 conversation_file, files)
    ELSE IF startswith(u, KAnalyze)
    THEN analyze_file_command(project_path, u, history, files)
    ELSE IF startswith(u, KRepo)
    THEN analyze_repo_command(u, history, files)
    ELSE IF startswith(u, KError) \/ startswith(u, KGenerate)
    THEN Outcome("query", "Thinking", save_history, history, conversation_file, files)
    ELSE IF startswith(u, KSaveHistory)
    THEN save_history_command(u, history, files)
    ELSE Outcome("query", "Thinking", save_history, history, conversation_file, files)

\* the history and the files once the loop has recorded the input
RecordedHistory(history, u) == Append(history, <<"user", u>>)

\* the input is one the loop leaves on
IsExit(u) == lower(u) \in {KExit, KQuit}

\* the input is one the loop skips
IsBlank(u) == strip(u) = Empty

\* one pass of the loop body for the input u
HandleInput(project_path, u) ==
    IF IsExit(u) THEN Unchanged("exited", "Goodbye")
    ELSE IF IsBlank(u) THEN Unchanged("prompt", "")
    ELSE IF save_history
    THEN Dispatch(project_path, u, RecordedHistory(conversation_history, u),
                  save_conversation(history_files, conversation_file.path,
                                    RecordedHistory(conversation_history, u)))
    ELSE Dispatch(project_path, u, conversation_history, history_files)

\* session.prompt returns u and the loop body runs up to the point where it
\* blocks next
Prompt(u) ==
    /\ pc = "prompt"
    /\ turns < MaxTurns
    /\ \E project_path \in ProjectPaths :
          /\ LET o == HandleInput(project_path, u)
             IN  /\ pc' = o.pc
                 /\ save_history' = o.save_history
                 /\ conversation_history' = o.conversation_history
                 /\ conversation_file' = o.conversation_file
                 /\ history_files' = o.history_files
                 /\ event' = [kind |-> "input", text |-> u, printed |-> o.printed]
          /\ IF ReadsFile(project_path, u)
             THEN LET r == read_file(file_cache, fs, AnalyzedPath(project_path, u))
                  IN  /\ file_cache' = r.cache
                      /\ firstRead' = NoteFirst(AnalyzedPath(project_path, u), r)
                      /\ okRead' = NoteOk(AnalyzedPath(project_path, u), r)
             ELSE UNCHANGED <<file_cache, firstRead, okRead>>
    /\ user_input' = u
    /\ turns' = turns + 1
    /\ UNCHANGED <<fs, ignored_dirs, ret, content, peer_cache, parent_dir>>

\* the text the command in hand shows and records for the answer r
Shown(u, r) == IF startswith(u, KGenerate) THEN _extract_code(r) ELSE r

\* the query of the LLM returns r: the answer is shown and, when saving is
\* on, recorded and saved
Respond(r) ==
    /\ pc = "query"
    /\ pc' = "prompt"
    /\ event' = [kind |-> "response", text |-> Shown(user_input, r), printed |-> "Panel"]
    /\ IF save_history
       THEN /\ conversation_history' =
                   Append(conversation_history, <<"assistant", Shown(user_input, r)>>)
            /\ history_files' =
                   save_conversation(history_files, conversation_file.path,
                       Append(conversation_history, <<"assistant", Shown(user_input, r)>>))
       ELSE UNCHANGED <<conversation_history, history_files>>
    /\ UNCHANGED <<fs, ignored_dirs, file_cache, ret, firstRead, okRead, content,
                   peer_cache, user_input, save_history, conversation_file, turns,
                   parent_dir>>

\* the notice of the except KeyboardInterrupt branch; the loop waits in input()
Interrupted ==
    /\ pc' = "interrupted"
    /\ event' = [kind |-> "ctrl_c", printed |-> "Interrupted. Press Ctrl+C again to exit."]
    /\ turns' = turns + 1
    /\ UNCHANGED <<fs, ignored_dirs, file_cache, ret, firstRead, okRead, content,
                   peer_cache, user_input, save_history, conversation_history,
                   conversation_file, history_files, parent_dir>>

\* Ctrl+C at the prompt
PromptInterrupt ==
    /\ pc = "prompt"
    /\ turns < MaxTurns
    /\ Interrupted

\* Ctrl+C while the LLM is queried
QueryInterrupt ==
    /\ pc = "query"
    /\ turns < MaxTurns
    /\ Interrupted

\* the input ends at the prompt: EOFError, printed by except Exception
PromptEOF ==
    /\ pc = "prompt"
    /\ turns < MaxTurns
    /\ pc' = "prompt"
    /\ event' = [kind |-> "eof", printed |-> "Error: "]
    /\ turns' = turns + 1
    /\ UNCHANGED <<fs, ignored_dirs, file_cache, ret, firstRead, okRead, content,
                   peer_cache, user_input, save_history, conversation_history,
                   conversation_file, history_files, parent_dir>>

\* Enter after an interrupt: input() returns and the loop goes round
WaitEnter ==
    /\ pc = "interrupted"
    /\ turns < MaxTurns
    /\ pc' = "prompt"
    /\ event' = [kind |-> "enter", printed |-> ""]
    /\ turns' = turns + 1
    /\ UNCHANGED <<fs, ignored_dirs, file_cache, ret, firstRead, okRead, content,
                   peer_cache, user_input, save_history, conversation_history,
                   conversation_file, history_files, parent_dir>>

\* Ctrl+C after an interrupt: break
WaitInterrupt ==
    /\ pc = "interrupted"
    /\ turns < MaxTurns
    /\ pc' = "exited"
    /\ event' = [kind |-> "ctrl_c", printed |-> "Goodbye"]
    /\ turns' = turns + 1
    /\ UNCHANGED <<fs, ignored_dirs, file_cache, ret, firstRead, okRead, content,
                   peer_cache, user_input, save_history, conversation_history,
                   conversation_file, history_files, parent_dir>>

\* the input ends after an interrupt: input() raises EOFError inside the
\* except branch, where no handler of the loop catches it
WaitEOF ==
    /\ pc = "interrupted"
    /\ turns < MaxTurns
    /\ pc' = "raised"
    /\ event' = [kind |-> "eof", printed |-> "Traceback: EOFError"]
    /\ turns' = turns + 1
    /\ UNCHANGED <<fs, ignored_dirs, file_cache, ret, firstRead, okRead, content,
                   peer_cache, user_input, save_history, conversation_history,
                   conversation_file, history_files, parent_dir>>

\* run_interactive_loop up to its first prompt
InitLoop ==
    /\ fs = LoopTree
    /\ ignored_dirs = IgnorePatterns
    /\ file_cache = <<>>
    /\ ret = NoCall
    /\ firstRead = <<>>
    /\ okRead = <<>>
    /\ peer_cache = <<>>
    /\ content = Empty
    /\ pc = "prompt"
    /\ user_input = Empty
    /\ save_history \in BOOLEAN
    /\ conversation_history = <<>>
    /\ conversation_file = IF save_history THEN BoundTo(ConversationPath) ELSE NoFile
    /\ history_files = IF save_history THEN (ConversationPath :> HeaderText) ELSE <<>>
    /\ event = NoEvent
    /\ turns = 0
    /\ parent_dir \in ParentDirArgs

NextLoop ==
    \/ \E u \in UserInputs : Prompt(u)
    \/ \E r \in Responses : Respond(r)
    \/ PromptInterrupt
    \/ QueryInterrupt
    \/ PromptEOF
    \/ WaitEnter
    \/ WaitInterrupt
    \/ WaitEOF

SpecLoop == InitLoop /\ [][NextLoop]_vars

----------------------------------------------------------------------------
(* The claims *)

IsCall(op) == ret.op = op /\ ret.kind = "ok"

\* a directory name matches one of the configured ignore patterns
Ignored(name) == \E pattern \in ignored_dirs : fnmatch(name, pattern)

\* c lies below root
Below(root, c) == IsPrefix(root, c) /\ Len(c) > Len(root)

\* c lies inside a directory below root that the walk prunes
InPruned(root, c) == \E k \in (Len(root) + 1)..(Len(c) - 1) : Ignored(c[k])

\* c as a path relative to root
RelativeTo(root, c) == JoinWith(Slash, SubSeq(c, Len(root) + 1, Len(c)))

\* the lowercased extension of a path, with its dot
LowerExt(p) == lower(splitext(p)[2])

\* C1: analyze_project returns in 'files' exactly the regular files below the
\* root that are in no pruned directory, each once and relative to the root,
\* and file_count is the length of 'files'.
C1_FilesAreTheUnprunedFiles ==
    IsCall("analyze_project") =>
        LET root == Resolve(ret.path)
            expected == {RelativeTo(root, c) :
                            c \in {d \in DOMAIN fs : /\ IsFile(fs, d)
                                                     /\ Below(root, d)
                                                     /\ ~InPruned(root, d)}}
        IN  /\ Range(ret.value.files) = expected
            /\ Len(ret.value.files) = Cardinality(expected)
            /\ ret.value.file_count = Len(ret.value.files)

\* a walk of the whole tree that records a file and leaves out a file of a
\* pruned directory
C1_Witness ==
    /\ IsCall("analyze_project")
    /\ Resolve(ret.path) = <<>>
    /\ ret.value.files # <<>>
    /\ \E c \in DOMAIN fs : IsFile(fs, c) /\ InPruned(<<>>, c)

\* C2: no entry of 'files' or 'directories' lies inside a directory whose
\* bare name matches an ignore pattern, at any depth, and no such directory
\* is an entry of 'directories'.
C2_NothingInsideIgnoredDirs ==
    IsCall("analyze_project") =>
        /\ \A i \in 1..Len(ret.value.files) :
              LET comps == SplitOn(ret.value.files[i], "/")
              IN  \A k \in 1..(Len(comps) - 1) : ~Ignored(comps[k])
        /\ \A i \in 1..Len(ret.value.directories) :
              LET comps == SplitOn(ret.value.directories[i], "/")
              IN  \A k \in 1..Len(comps) : ~Ignored(comps[k])

\* a walk of a tree that holds a file two levels inside an ignored directory
\* which itself lies in a directory that is visited
C2_Witness ==
    /\ IsCall("analyze_project")
    /\ Resolve(ret.path) = <<>>
    /\ ret.value.directories # <<>>
    /\ \E c \in DOMAIN fs : Len(c) = 3 /\ ~Ignored(c[1]) /\ Ignored(c[2])

\* C3, as claimed: every recorded file increments one file-type counter, so
\* the counts sum to the number of recorded files.
C3_EveryFileCounted ==
    IsCall("analyze_project") =>
        SumOver(ret.value.file_types, DOMAIN ret.value.file_types)
            = Len(ret.value.files)

\* C3, amended: every recorded file with an extension increments the counter
\* keyed by its lowercased extension (with the dot), a file without one
\* increments none, and no counter is keyed by the empty string.
C3_FilesWithExtensionCounted ==
    IsCall("analyze_project") =>
        LET files == ret.value.files
            types == ret.value.file_types
            WithExt(e) == {i \in 1..Len(files) : LowerExt(files[i]) = e}
        IN  /\ Empty \notin DOMAIN types
            /\ DOMAIN types = {LowerExt(files[i]) : i \in 1..Len(files)} \ {Empty}
            /\ \A e \in DOMAIN types : types[e] = Cardinality(WithExt(e))
            /\ SumOver(types, DOMAIN types)
                 = Cardinality({i \in 1..Len(files) : LowerExt(files[i]) # Empty})

\* a walk that records a file without an extension and one with an
\* upper-case extension
C3_Witness ==
    /\ IsCall("analyze_project")
    /\ \E i, j \in 1..Len(ret.value.files) :
          /\ LowerExt(ret.value.files[i]) = Empty
          /\ LowerExt(ret.value.files[j]) # Empty
          /\ LowerExt(ret.value.files[j]) # splitext(ret.value.files[j])[2]

\* C4, as claimed: every call of read_file(path) returns the text the first
\* call for that path returned.
C4_AnyTwoReadsAgree ==
    IsCall("read_file") => ret.value = firstRead[ret.path]

\* C4, amended: once a call of read_file(path) has obtained the text, from
\* the file or the cache, every later call returns that text.
C4_ReadsAgreeAfterSuccess ==
    (ret.op = "read_file" /\ ret.path \in DOMAIN okRead) =>
        ret.kind = "ok" /\ ret.value = okRead[ret.path]

\* a read that returns a text the file no longer holds
C4_Witness ==
    /\ IsCall("read_file")
    /\ ret.path \in DOMAIN okRead
    /\ ret.value # Empty
    /\ \/ ~CanOpen(fs, ret.path)
       \/ fs[Resolve(ret.path)].content # ret.value

\* C5, as claimed: every cache key is an absolute path.
C5_KeysAreAbsolute ==
    \A k \in DOMAIN file_cache : isabs(k)

\* C5, amended: the cache keys are the path strings read_file was called
\* with and obtained a text for, as spelled, each holding the text its own
\* first successful read returned.
C5_KeysAreAsSpelled ==
    /\ DOMAIN file_cache = DOMAIN okRead
    /\ \A k \in DOMAIN file_cache : file_cache[k] = okRead[k]

\* one file cached under two spellings, one of them relative, with
\* different texts
C5_Witness ==
    \E k1, k2 \in DOMAIN file_cache :
        /\ k1 # k2
        /\ Resolve(k1) = Resolve(k2)
        /\ ~isabs(k1)
        /\ file_cache[k1] # file_cache[k2]

PathCheckedOps == {"analyze_project", "get_project_summary", "analyze_file"}

\* C6: a call of analyze_project, get_project_summary or analyze_file (with
\* or without content) raises exactly when its path does not exist, then
\* FileNotFoundError and nothing else, and leaves the cache as it was.
C6_MissingPathRaisesNotFound ==
    [][(ret' # ret /\ ret'.op \in PathCheckedOps) =>
          /\ (ret'.kind = "raise") <=> ~exists(fs, ret'.path)
          /\ ret'.kind = "raise" =>
                ret'.exc = "FileNotFoundError" /\ file_cache' = file_cache]_vars

\* analyze_file with explicit content failed on a missing path while the
\* cache held an entry
C6_Witness ==
    /\ ret.op = "analyze_file"
    /\ ret.kind = "raise"
    /\ ret.arg.given
    /\ file_cache # <<>>

\* C7, as claimed: read_file never raises and returns the empty string for
\* a path that cannot be opened; analyze_file without content on an existing
\* path that cannot be opened returns lines 1 and size 0.
C7_UnopenableReadsEmpty ==
    /\ ret.op = "read_file" =>
          ret.kind = "ok" /\ (~CanOpen(fs, ret.path) => ret.value = Empty)
    /\ (ret.op = "analyze_file" /\ ~ret.arg.given
        /\ exists(fs, ret.path) /\ ~CanOpen(fs, ret.path)) =>
          ret.kind = "ok" /\ ret.value.lines = 1 /\ ret.value.size = 0

\* C7, amended: the same for a path this instance has not cached.
C7_UncachedUnopenableReadsEmpty ==
    /\ ret.op = "read_file" =>
          /\ ret.kind = "ok"
          /\ (~CanOpen(fs, ret.path) /\ ret.path \notin DOMAIN file_cache)
                => ret.value = Empty
    /\ (ret.op = "analyze_file" /\ ~ret.arg.given /\ exists(fs, ret.path)
        /\ ~CanOpen(fs, ret.path) /\ ret.path \notin DOMAIN file_cache) =>
          ret.kind = "ok" /\ ret.value.lines = 1 /\ ret.value.size = 0

\* analyze_file without content on an unreadable file that holds text
C7_Witness ==
    /\ IsCall("analyze_file")
    /\ ~ret.arg.given
    /\ IsFile(fs, Resolve(ret.path))
    /\ ~fs[Resolve(ret.path)].readable
    /\ fs[Resolve(ret.path)].content # Empty
    /\ ret.value.size = 0

BaseFields == {"path", "type", "lines", "size"}

\* C8: the keys of analyze_file's record follow from the lowercased
\* extension alone: the base fields, with imports/functions/classes for py
\* and js, includes/functions/structs for c, cpp and h, nothing more
\* otherwise.
C8_KeysFollowFromExtension ==
    IsCall("analyze_file") =>
        LET t == lstripDots(LowerExt(ret.path))
        IN  DOMAIN ret.value =
               BaseFields \cup
               (IF t \in {XPy, XJs} THEN {"imports", "functions", "classes"}
                ELSE IF t \in {XC, XCpp, XH} THEN {"includes", "functions", "structs"}
                ELSE {})

\* analyze_file of a file with an upper-case .PY extension
C8_Witness ==
    /\ IsCall("analyze_file")
    /\ splitext(ret.path)[2] = <<".","P","Y">>
    /\ "imports" \in DOMAIN ret.value

C9_Keywords ==
    { <<"m","a","i","n">>, <<"i","n","d","e","x">>, <<"a","p","p">>,
      <<"c","o","n","f","i","g">> }

\* C9: important_files is the subsequence of the files of the underlying
\* analyze_project call whose lowercased path contains main, index, app or
\* config; the counts and file types are those of that call.
C9_ImportantFilesAreTheMatches ==
    IsCall("get_project_summary") =>
        LET info == ret.project_info
            Matches(f) == \E kw \in C9_Keywords : Contains(lower(f), kw)
        IN  /\ \E order \in ScanOrders :
                  info = analyze_project(fs, ret.path, order, ignored_dirs)
            /\ ret.value.important_files = SelectSeq(info.files, Matches)
            /\ ret.value.file_count = info.file_count
            /\ ret.value.directory_count = info.directory_count
            /\ ret.value.file_types = info.file_types

\* a summary that keeps Main.PY, leaves another file out and keeps the
\* order of two matches
C9_Witness ==
    /\ IsCall("get_project_summary")
    /\ NMainPY \in Range(ret.value.important_files)
    /\ Len(ret.value.important_files) = 2
    /\ Len(ret.project_info.files) = 3

\* C10: none of if, for, while, switch is ever among the 'functions' of the
\* C/C++ extractor.
C10_NoControlFlowInFunctions ==
    ret.op = "_analyze_c_cpp" =>
        \A i \in 1..Len(ret.value.functions) :
            ret.value.functions[i] \notin ControlFlowKeywords

\* C11: the JavaScript extractor records in 'imports' the quoted path of
\* every require('<path>') call and of every import ... '<path>' statement:
\* a text that holds the call require('m') or the statement
\* import x from 'm' has m among its imports.
C11_ImportsAndRequireCallsRecorded ==
    (/\ ret.op = "_analyze_javascript"
     /\ \/ Contains(content, JRequire \o JCallM)
        \/ Contains(content, JImportXFrom \o JQuotedM))
        => <<"m">> \in Range(ret.value.imports)

\* s without its leading white space
C12_Lstrip(s) ==
    IF \A i \in 1..Len(s) : InClass(s[i], SpaceChar) THEN Empty
    ELSE SubSeq(s, CHOOSE i \in 1..Len(s) :
                       /\ ~InClass(s[i], SpaceChar)
                       /\ \A j \in 1..(i - 1) : InClass(s[j], SpaceChar),
                Len(s))

\* the line begins, in column 0, with the keyword as a word of its own
C12_StartsWith(line, kw) ==
    /\ LitAt(line, 1, kw)
    /\ Len(line) = Len(kw) \/ InClass(line[Len(kw) + 1], SpaceChar)

\* what follows the keyword on the line
C12_After(line, kw) == C12_Lstrip(SubSeq(line, Len(kw) + 1, Len(line)))

\* the first word of s
C12_FirstWord(s) ==
    SubSeq(s, 1, (CHOOSE e \in 1..(Len(s) + 1) :
                      /\ e = Len(s) + 1 \/ InClass(s[e], SpaceChar)
                      /\ \A j \in 1..(e - 1) : ~InClass(s[j], SpaceChar)) - 1)

C12_Module(line) == C12_FirstWord(C12_After(line, KwFrom))
C12_AfterModule(line) == C12_After(C12_After(line, KwFrom), C12_Module(line))

\* the line has the form  import <names>
C12_IsImport(line) ==
    C12_StartsWith(line, KwImport) /\ C12_After(line, KwImport) # Empty

\* the line has the form  from <module> import <names>
C12_IsFromImport(line) ==
    /\ C12_StartsWith(line, KwFrom)
    /\ C12_Module(line) # Empty
    /\ C12_StartsWith(C12_AfterModule(line), KwImport)
    /\ C12_After(C12_AfterModule(line), KwImport) # Empty

\* the comma-split, trimmed names, each after the prefix
C12_Names(names, prefix) ==
    LET items == SplitOn(names, ",")
    IN  [i \in 1..Len(items) |-> prefix \o strip(items[i])]

\* the names one line contributes
C12_LineNames(line) ==
    IF C12_IsFromImport(line)
    THEN C12_Names(C12_After(C12_AfterModule(line), KwImport), C12_Module(line) \o Dot)
    ELSE IF C12_IsImport(line)
    THEN C12_Names(C12_After(line, KwImport), Empty)
    ELSE <<>>

C12_Expected(text) ==
    LET lines == SplitOn(text, "\n")
    IN  Flatten([i \in 1..Len(lines) |-> C12_LineNames(lines[i])])

\* every line that begins with the word from or import has its operands on
\* that same line
C12_OperandsOnTheLine(text) ==
    LET lines == SplitOn(text, "\n")
    IN  \A i \in 1..Len(lines) :
           /\ C12_StartsWith(lines[i], KwImport) => C12_IsImport(lines[i])
           /\ C12_StartsWith(lines[i], KwFrom) => C12_IsFromImport(lines[i])

\* C12, as claimed: 'imports' is, in line order, the concatenation over every
\* line of the form  from <module> import <names>  or  import <names>  of
\* its comma-split trimmed names, <module>.<name> for a from-import and the
\* bare name for a plain import.
C12_ImportsAreTheNamesOfTheLines ==
    ret.op = "_analyze_python" => ret.value.imports = C12_Expected(content)

\* C12, amended: the same for a text in which every line that begins with
\* from or import carries its operands on that line.
C12_ImportsAreTheNamesOfWholeLines ==
    (ret.op = "_analyze_python" /\ C12_OperandsOnTheLine(content)) =>
        ret.value.imports = C12_Expected(content)

\* a plain import and a from-import of two names around a comma with blanks
C12_Witness ==
    /\ ret.op = "_analyze_python"
    /\ C12_OperandsOnTheLine(content)
    /\ ret.value.imports = <<POs, <<"s","y","s",".","a">>, <<"s","y","s",".","b">>>>

\* the longest prefix of s without white space or a character of stops
C13_Name(s, stops) ==
    SubSeq(s, 1, (CHOOSE e \in 1..(Len(s) + 1) :
                      /\ e = Len(s) + 1 \/ InClass(s[e], SpaceChar) \/ s[e] \in stops
                      /\ \A j \in 1..(e - 1) :
                            ~InClass(s[j], SpaceChar) /\ s[j] \notin stops) - 1)

\* the name a line records: the line begins in column 0 with the keyword
\* and a name follows it
C13_LineName(line, kw, stops) ==
    IF C12_StartsWith(line, kw) /\ C13_Name(C12_After(line, kw), stops) # Empty
    THEN <<C13_Name(C12_After(line, kw), stops)>>
    ELSE <<>>

C13_Expected(text, kw, stops) ==
    LET lines == SplitOn(text, "\n")
    IN  Flatten([i \in 1..Len(lines) |-> C13_LineName(lines[i], kw, stops)])

\* every line that begins with the word def or class goes on after it
C13_NameOnTheLine(text) ==
    LET lines == SplitOn(text, "\n")
    IN  \A i \in 1..Len(lines) : \A kw \in {KwDef, KwClass} :
           C12_StartsWith(lines[i], kw) => C12_After(lines[i], kw) # Empty

\* C13, as claimed: 'functions' and 'classes' are, in line order, exactly the
\* names of the  def <name>  and  class <name>  lines that start in column
\* 0; an indented definition is never recorded.
C13_DefsAreTheColumn0Lines ==
    ret.op = "_analyze_python" =>
        /\ ret.value.functions = C13_Expected(content, KwDef, {"("})
        /\ ret.value.classes = C13_Expected(content, KwClass, {":", "("})

\* C13, amended: the same for a text in which every line that begins with
\* def or class goes on after the keyword on that line.
C13_DefsAreTheColumn0WholeLines ==
    (ret.op = "_analyze_python" /\ C13_NameOnTheLine(content)) =>
        /\ ret.value.functions = C13_Expected(content, KwDef, {"("})
        /\ ret.value.classes = C13_Expected(content, KwClass, {":", "("})

\* a def in column 0 is recorded and the same def, indented on the next
\* line, is not
C13_Witness ==
    /\ ret.op = "_analyze_python"
    /\ content = PDefF \o LLine \o LSpace \o PDefF
    /\ ret.value.functions = << <<"f">> >>

\* the content an analyze_file call worked on: the text supplied, or the
\* text read_file returned (the cached text, or the empty string when the
\* file could not be opened)
C14_Content ==
    IF ret.arg.given THEN ret.arg.text
    ELSE IF ret.path \in DOMAIN file_cache THEN file_cache[ret.path]
    ELSE Empty

\* C14: analyze_file returns lines equal to the number of newline characters
\* of the content, supplied or read, plus one, and size equal to its length;
\* empty content gives lines 1 and size 0.
C14_LinesAndSizeOfContent ==
    IsCall("analyze_file") =>
        /\ ret.value.lines = Len(SplitOn(C14_Content, "\n"))
        /\ ret.value.size = Len(C14_Content)
        /\ C14_Content = Empty => ret.value.lines = 1 /\ ret.value.size = 0

\* analyze_file read a two-line text itself
C14_Witness ==
    /\ IsCall("analyze_file")
    /\ ~ret.arg.given
    /\ ret.value.lines = 2
    /\ ret.value.size = 3

\* every entry of the cache before a step is in the cache after it, with the
\* same text
C15_Kept(before, after) ==
    \A k \in DOMAIN before : k \in DOMAIN after /\ after[k] = before[k]

C15_OwnOps ==
    {"analyze_project", "get_project_summary", "analyze_file", "read_file",
     "get_file_context"}

C15_PeerOps ==
    {"peer.get_project_summary", "peer.analyze_file", "peer.read_file",
     "peer.get_file_context"}

\* C15: over any sequence of operations on two analyzer instances and any
\* changes of the files, a cache entry once present is never removed and
\* never changes its text, and an operation on one instance leaves the
\* cache of the other as it was.
C15_EntriesStayAndInstancesApart ==
    [][/\ C15_Kept(file_cache, file_cache')
       /\ C15_Kept(peer_cache, peer_cache')
       /\ (ret' # ret /\ ret'.op \in C15_OwnOps) => peer_cache' = peer_cache
       /\ (ret' # ret /\ ret'.op \in C15_PeerOps) => file_cache' = file_cache]_vars

\* both instances hold the same path with different texts, and the file is
\* gone
C15_Witness ==
    \E k \in DOMAIN file_cache \cap DOMAIN peer_cache :
        /\ file_cache[k] # peer_cache[k]
        /\ ~exists(fs, k)

----------------------------------------------------------------------------
(* C16 *)

\* the input is the save_history command, with a name or without
C16_IsSaveHistoryCommand(u) ==
    u = SubSeq(KSaveHistory, 1, 12) \/ startswith(u, KSaveHistory)

\* C16: a save_history command, with or without a name, entered while saving
\* is off turns save_history on, leaves a conversation file that exists and
\* is not sent to the LLM; and while saving is on every input that is not
\* blank and not exit or quit is appended to the conversation history.
C16_SaveHistoryCommandEnablesSaving ==
    [][ (pc = "prompt" /\ event'.kind = "input") =>
          /\ (~save_history /\ C16_IsSaveHistoryCommand(event'.text)) =>
                /\ save_history'
                /\ conversation_file'.bound
                /\ conversation_file'.path \in DOMAIN history_files'
                /\ pc' # "query"
          /\ (save_history /\ ~IsBlank(event'.text) /\ ~IsExit(event'.text)) =>
                conversation_history' =
                    Append(conversation_history, <<"user", event'.text>>)
      ]_vars

----------------------------------------------------------------------------
(* C17 *)

\* the input of this step is appended to the conversation history
C17_InputRecorded ==
    conversation_history' = Append(conversation_history, <<"user", event'.text>>)

\* the answer of this step is appended to the conversation history, right
\* behind the input it answers
C17_ResponseRecorded ==
    /\ conversation_history # <<>>
    /\ conversation_history[Len(conversation_history)] = <<"user", user_input>>
    /\ conversation_history' =
           Append(conversation_history, <<"assistant", event'.text>>)

\* entries are only appended: the history before the step is a prefix of the
\* history after it
C17_OnlyAppended == IsPrefix(conversation_history, conversation_history')

\* after an append the conversation file holds the title and every entry of
\* the history, in order
C17_FileRewritten ==
    conversation_history' # conversation_history =>
        /\ conversation_file'.bound
        /\ conversation_file'.path \in DOMAIN history_files'
        /\ history_files'[conversation_file'.path] =
               HeaderTitle \o FormatEntries(conversation_history')

\* C17: with saving on, every input that is not blank (empty once stripped)
\* and not exit or quit is appended to the history, every answer of the LLM
\* is appended behind its input, entries are only appended, and once an
\* input or an answer is handled that was appended, the conversation file
\* holds the whole history in order.
C17_AllConversationsSaved ==
    [][ save_history =>
          /\ (pc = "prompt" /\ event'.kind = "input"
              /\ ~IsBlank(event'.text) /\ ~IsExit(event'.text)) => C17_InputRecorded
          /\ (pc = "query" /\ event'.kind = "response") => C17_ResponseRecorded
          /\ C17_OnlyAppended
          /\ C17_FileRewritten
      ]_vars

----------------------------------------------------------------------------
(* C18 *)

\* the loop has ended: by break, or by an exception no handler caught
C18_Ended(at) == at \in {"exited", "raised"}

\* C18: a Ctrl+C at the prompt or during a command does not end the loop but
\* prints the notice and waits; from waiting the loop ends only on a second
\* Ctrl+C; and on Enter it is back at the prompt with save_history, the
\* conversation history, the conversation file and its contents unchanged.
C18_OnlyASecondCtrlCExits ==
    [][ /\ (pc \in {"prompt", "query"} /\ event'.kind = "ctrl_c") =>
              /\ pc' = "interrupted"
              /\ event'.printed = "Interrupted. Press Ctrl+C again to exit."
        /\ (pc = "interrupted" /\ C18_Ended(pc')) => event'.kind = "ctrl_c"
        /\ (pc = "interrupted" /\ event'.kind = "enter") =>
              /\ pc' = "prompt"
              /\ UNCHANGED <<save_history, conversation_history, conversation_file,
                             history_files>>
      ]_vars

----------------------------------------------------------------------------
(* C19 *)

\* the step is the input of exit or quit in any case of letters
C19_ExitTyped ==
    pc = "prompt" /\ event'.kind = "input" /\ lower(event'.text) \in {KExit, KQuit}

\* the step is the second of two Ctrl+C
C19_SecondCtrlC == pc = "interrupted" /\ event'.kind = "ctrl_c"

\* C19: the loop ends only on exit or quit, in any case of letters, or on
\* the second of two Ctrl+C; an exception other than KeyboardInterrupt (the
\* end of the input raises one) is reported and the loop is at the prompt
\* again.
C19_TerminatesOnlyOnExitOrTwoCtrlC ==
    [][ /\ (pc \notin {"exited", "raised"} /\ pc' \in {"exited", "raised"}) =>
              (C19_ExitTyped \/ C19_SecondCtrlC)
        /\ event'.kind = "eof" =>
              (pc' = "prompt" /\ event'.printed = "Error: ")
      ]_vars

====
